---- MODULE Spec2Model ----
(***************************************************************************)
(* Model of utils.py of Dream-DIA-XMBD: the chromatogram builder           *)
(* (load_rawdata with calc_win_id) as a state machine over a scan stream,  *)
(* and the pure helpers calc_XIC, adjust_size, find_rt_pos,                *)
(* get_peak_indice, get_precursor_indice and tear_library as operators     *)
(* applied to inputs drawn from bounded sets.                              *)
(*                                                                         *)
(* Python lists are sequences; a Python index i is the TLA+ index i + 1.   *)
(* Retention times, m/z values and intensities are integers; halves of a   *)
(* tolerance are avoided by comparing doubled quantities.                  *)
(***************************************************************************)
EXTENDS Integers, Sequences, FiniteSets

VARIABLES
    pc,      \* load_rawdata: "stream", "trailing", "done" or the exception raised; "idle" elsewhere
    stream,  \* load_rawdata: the scans read from rawdata_reader so far, in order
    RT,      \* load_rawdata: the local variable RT: <<>> while unbound, <<value>> once assigned
    ms1,     \* load_rawdata: the MS1_Chrom object
    ms2,     \* load_rawdata: the list of MS2_Chrom objects, one per window
    args,    \* a helper call: the arguments of the call
    ret      \* a helper call: <<>> while the call is pending, then <<the value returned>>

vars == <<pc, stream, RT, ms1, ms2, args, ret>>

(***************************************************************************)
(* Bounds of the model.                                                    *)
(***************************************************************************)
\* longest scan stream read by load_rawdata
MaxScans == 4
\* get_peak_indice: largest n_cycles and largest peak_index_range
MaxPeakCycles == 8
MaxPeakIndexRange == 7
\* find_rt_pos: longest rt_list
MaxRtListLen == 4
\* calc_XIC: most cycles in spectra, most entries in one cycle's spectrum
MaxXicCycles == 2
MaxXicPeaks == 3
\* adjust_size: most rows of frag_matrix, largest n_frags
MaxFragRows == 3
\* tear_library: most rows of the library, most threads
MaxLibraryRows == 5
MaxThreads == 3

(***************************************************************************)
(* Python helpers.                                                         *)
(***************************************************************************)
\* list[i] for a Python index i, negative indices counting from the end
PyIndex(list, i) == IF i >= 0 THEN i + 1 ELSE Len(list) + i + 1

\* list.pop(): the list without its last element
PopLast(list) == SubSeq(list, 1, Len(list) - 1)

\* list.pop(0): the list without its first element
PopFirst(list) == SubSeq(list, 2, Len(list))

\* (a python list) == (an int): a list never equals a number
ListEqualsInt(list, n) == FALSE

RECURSIVE BisectRightFrom(_, _, _, _)
BisectRightFrom(a, x, lo, hi) ==
    IF lo < hi
    THEN LET mid == (lo + hi) \div 2
         IN  IF x < a[mid + 1]
             THEN BisectRightFrom(a, x, lo, mid)
             ELSE BisectRightFrom(a, x, mid + 1, hi)
    ELSE lo

\* bisect.bisect_right (bisect.bisect): insertion point after any equal entries
bisect_right(a, x) == BisectRightFrom(a, x, 0, Len(a))

RECURSIVE BisectLeftFrom(_, _, _, _)
BisectLeftFrom(a, x, lo, hi) ==
    IF lo < hi
    THEN LET mid == (lo + hi) \div 2
         IN  IF a[mid + 1] < x
             THEN BisectLeftFrom(a, x, mid + 1, hi)
             ELSE BisectLeftFrom(a, x, lo, mid)
    ELSE lo

\* bisect.bisect_left: insertion point before any equal entries
bisect_left(a, x) == BisectLeftFrom(a, x, 0, Len(a))

(***************************************************************************)
(* load_rawdata: the isolation windows and the scans of the stream.        *)
(***************************************************************************)
\* the table np.loadtxt(win_file) returns: one <<mz_min, mz_max>> row per window
win_range == << <<2, 4>>, <<4, 6>> >>

\* win_range[:,0]
WinLowerBounds == [w \in 1..Len(win_range) |-> win_range[w][1]]

\* precursor m/z values a level-2 scan may carry: below, inside and above the windows
PrecursorMzs == {1, 3, 5, 7}

\* retention times (minutes) a scan may carry
RTs == {1, 2}

\* the precursor m/z lies in some window [mz_min, mz_max)
InSomeWindow(mz) == \E w \in 1..Len(win_range) : win_range[w][1] <= mz /\ mz < win_range[w][2]

MS1_Chrom == [rt_list |-> <<>>, spectra |-> <<>>]

MS2_Chrom(win_id, win_min, win_max) ==
    [win_id |-> win_id, win_min |-> win_min, win_max |-> win_max,
     rt_list |-> <<>>, spectra |-> <<>>]

calc_win_id(precursor_mz, table) == bisect_right(WinLowerBounds, precursor_mz) - 1

\* the stream position of the scan being read (enumerate's idx)
idx == Len(stream)

Scan(level, rt, mz) == [level |-> level, retentionTime |-> rt, precursorMz |-> mz]

InitLoad ==
    /\ pc = "stream"
    /\ stream = <<>>
    /\ RT = <<>>
    /\ ms1 = MS1_Chrom
    /\ ms2 = [w \in 1..Len(win_range) |-> MS2_Chrom(w - 1, win_range[w][1], win_range[w][2])]
    /\ args = <<>>
    /\ ret = <<>>

\* a level-1 scan: RT is set from the scan, the filtered spectrum is appended to ms1.
\* The spectrum kept is identified by the scan's stream position.
ReadMS1(rt) ==
    /\ pc = "stream"
    /\ Len(stream) < MaxScans
    /\ stream' = Append(stream, Scan(1, rt, 0))
    /\ RT' = <<60 * rt>>
    /\ ms1' = [rt_list |-> Append(ms1.rt_list, 60 * rt),
               spectra |-> Append(ms1.spectra, idx)]
    /\ UNCHANGED <<pc, ms2, args, ret>>

FirstScanRT_off(i, cur) == IF i = 1 THEN <<0>> ELSE cur

\* lines 160-161: RT is reset to 0 only for a level-2 scan at stream position 0
FirstScanRT(i, cur) == IF i = 0 THEN <<0>> ELSE cur

\* a level-2 scan: appended to the chromatogram of ms2[win_id] with the current RT;
\* reading RT before any assignment raises UnboundLocalError
ReadMS2(rt, mz) ==
    /\ pc = "stream"
    /\ Len(stream) < MaxScans
    /\ stream' = Append(stream, Scan(2, rt, mz))
    /\ LET rtNow  == FirstScanRT(idx, RT)
           win_id == calc_win_id(mz, win_range)
           w      == PyIndex(ms2, win_id)
       IN  IF rtNow = <<>>
           THEN /\ pc' = "UnboundLocalError"
                /\ UNCHANGED <<RT, ms2>>
           ELSE /\ pc' = pc
                /\ RT' = rtNow
                /\ ms2' = [ms2 EXCEPT ![w].rt_list = Append(@, rtNow[1]),
                                      ![w].spectra = Append(@, idx)]
    /\ UNCHANGED <<ms1, args, ret>>

\* a scan of any other level is skipped
ReadOther(rt) ==
    /\ pc = "stream"
    /\ Len(stream) < MaxScans
    /\ stream' = Append(stream, Scan(3, rt, 0))
    /\ UNCHANGED <<pc, RT, ms1, ms2, args, ret>>

\* lines 169-172: the test for a leading MS2 entry
LeadingArtifact(each_ms2, chrom1) ==
    /\ Len(each_ms2.rt_list) - Len(chrom1.rt_list) = 1
    /\ ListEqualsInt(each_ms2.rt_list, 0)

\* the stream is exhausted; lines 168-172 run over every window
LeadingCorrection ==
    /\ pc = "stream"
    /\ pc' = "trailing"
    /\ ms2' = [w \in 1..Len(ms2) |->
                 IF LeadingArtifact(ms2[w], ms1)
                 THEN [ms2[w] EXCEPT !.rt_list = PopFirst(@), !.spectra = PopFirst(@)]
                 ELSE ms2[w]]
    /\ UNCHANGED <<stream, RT, ms1, args, ret>>

\* line 176: the windows that are one cycle short of MS1
OneShort(chrom1, chroms2) ==
    {w \in 1..Len(chroms2) : Len(chrom1.rt_list) - Len(chroms2[w].rt_list) = 1}

FirstOneShort_off(chrom1, chroms2) ==
    CHOOSE w \in 1..Len(chroms2) :
        \A v \in 1..Len(chroms2) : Len(chroms2[w].rt_list) <= Len(chroms2[v].rt_list)

\* the window at which the loop of line 175 stops
FirstOneShort(chrom1, chroms2) ==
    CHOOSE w \in OneShort(chrom1, chroms2) : \A v \in OneShort(chrom1, chroms2) : w <= v

\* lines 174-185: one trim pass at the first window that is one cycle short of MS1
TrailingCorrection ==
    /\ pc = "trailing"
    /\ pc' = "done"
    /\ IF OneShort(ms1, ms2) # {}
       THEN LET shorter_length == Len(ms2[FirstOneShort(ms1, ms2)].rt_list)
            IN  /\ ms2' = [w \in 1..Len(ms2) |->
                             IF Len(ms2[w].rt_list) > shorter_length
                             THEN [ms2[w] EXCEPT !.rt_list = PopLast(@), !.spectra = PopLast(@)]
                             ELSE ms2[w]]
                /\ ms1' = [rt_list |-> PopLast(ms1.rt_list), spectra |-> PopLast(ms1.spectra)]
       ELSE UNCHANGED <<ms1, ms2>>
    /\ UNCHANGED <<stream, RT, args, ret>>

NextLoad ==
    \/ \E rt \in RTs : ReadMS1(rt)
    \/ \E rt \in RTs, mz \in PrecursorMzs : ReadMS2(rt, mz)
    \/ \E rt \in RTs : ReadOther(rt)
    \/ LeadingCorrection
    \/ TrailingCorrection

Spec == InitLoad /\ [][NextLoad]_vars

(***************************************************************************)
(* What the stream read so far says about the chromatograms.               *)
(***************************************************************************)
\* the window (index into ms2) that line 164-165 resolves a level-2 scan to
WindowOf(scan) == PyIndex(ms2, calc_win_id(scan.precursorMz, win_range))

\* the number of level-1 scans read
NumMS1 == Cardinality({i \in 1..Len(stream) : stream[i].level = 1})

\* the number of level-2 scans read that resolve to window w
NumInWindow(w) ==
    Cardinality({i \in 1..Len(stream) : stream[i].level = 2 /\ WindowOf(stream[i]) = w})

\* the stream positions (from 0) of the level-1 scans before position i
MS1Before(i) == {j \in 0..(i - 1) : stream[j + 1].level = 1}

\* the retention time, in seconds, of the last level-1 scan before position i; 0 if none
CycleRT(i) ==
    IF MS1Before(i) = {} THEN 0
    ELSE LET j == CHOOSE m \in MS1Before(i) : \A n \in MS1Before(i) : n <= m
         IN  60 * stream[j + 1].retentionTime

Windows == 1..Len(ms2)

CycleCount(chrom) == Len(chrom.rt_list)

(***************************************************************************)
(* C1: after load_rawdata returns, the MS1 chromatogram and every MS2      *)
(* window chromatogram have the same number of cycles.                     *)
(***************************************************************************)
C1_EqualCycleCounts ==
    pc = "done" => \A w \in Windows : CycleCount(ms2[w]) = CycleCount(ms1)

(***************************************************************************)
(* C2: when the stream begins with a level-2 scan and its window ends the  *)
(* streaming pass with exactly one more cycle than MS1, the leading        *)
(* correction has dropped that scan's entry (rt_list and spectra), so the  *)
(* window and MS1 have the same length.                                    *)
(***************************************************************************)
C2_LeadingEntryDropped ==
    pc = "trailing" =>
        \A w \in Windows :
            (/\ Len(stream) > 0
             /\ stream[1].level = 2
             /\ InSomeWindow(stream[1].precursorMz)
             /\ WindowOf(stream[1]) = w
             /\ NumInWindow(w) = NumMS1 + 1)
            => /\ CycleCount(ms2[w]) = CycleCount(ms1)
               /\ Len(ms2[w].spectra) = Len(ms2[w].rt_list)
               /\ \A k \in 1..Len(ms2[w].spectra) : ms2[w].spectra[k] # 0

(***************************************************************************)
(* C3: a level-2 scan whose precursor m/z lies in no isolation window      *)
(* aborts load_rawdata with an OutOfRange error and is appended to no      *)
(* window's chromatogram.                                                  *)
(***************************************************************************)
C3_OutOfRangeAborts ==
    \A i \in 1..Len(stream) :
        (stream[i].level = 2 /\ ~InSomeWindow(stream[i].precursorMz))
        => /\ pc = "OutOfRange"
           /\ \A w \in Windows : \A k \in 1..Len(ms2[w].spectra) : ms2[w].spectra[k] # i - 1

(***************************************************************************)
(* C9 as stated: every level-2 entry kept in a window chromatogram carries *)
(* its own scan's retention time (in seconds), except the scan at stream   *)
(* position 0, which carries 0.                                            *)
(***************************************************************************)
C9_OwnRetentionTime ==
    \A w \in Windows : \A k \in 1..Len(ms2[w].spectra) :
        LET i == ms2[w].spectra[k]
        IN  ms2[w].rt_list[k] = IF i = 0 THEN 0 ELSE 60 * stream[i + 1].retentionTime

(***************************************************************************)
(* C9 amended: every level-2 entry kept in a window chromatogram carries   *)
(* the retention time (in seconds) of the last level-1 scan read before    *)
(* it, and 0 when no level-1 scan was read before it.                      *)
(***************************************************************************)
C9_CycleRetentionTime ==
    \A w \in Windows :
        /\ Len(ms2[w].spectra) = Len(ms2[w].rt_list)
        /\ \A k \in 1..Len(ms2[w].spectra) :
               ms2[w].rt_list[k] = CycleRT(ms2[w].spectra[k])

\* a level-2 scan after a level-1 scan has been stored, and its own retention time
\* is not the one stored with it
C9_Witness ==
    \E w \in Windows : \E k \in 1..Len(ms2[w].spectra) :
        LET i == ms2[w].spectra[k]
        IN  /\ i > 0
            /\ MS1Before(i) # {}
            /\ 60 * stream[i + 1].retentionTime # ms2[w].rt_list[k]

(***************************************************************************)
(* C10 as stated: when some window is exactly one cycle short of MS1, the  *)
(* trim pass removes the last entry of MS1 and of every window with more   *)
(* cycles than the shortest window, leaves every other window unchanged,   *)
(* and all chromatograms then have the same cycle count; otherwise nothing *)
(* is trimmed.                                                             *)
(***************************************************************************)
ShortestCount == CHOOSE n \in {CycleCount(ms2[w]) : w \in Windows} :
                     \A v \in Windows : n <= CycleCount(ms2[v])

Popped(chrom) == [chrom EXCEPT !.rt_list = PopLast(@), !.spectra = PopLast(@)]

C10_TrimToShortest ==
    [][pc = "trailing" =>
        IF \E w \in Windows : CycleCount(ms1) - CycleCount(ms2[w]) = 1
        THEN /\ ms1' = Popped(ms1)
             /\ \A w \in Windows :
                    ms2'[w] = IF CycleCount(ms2[w]) > ShortestCount
                              THEN Popped(ms2[w]) ELSE ms2[w]
             /\ \A w \in Windows : CycleCount(ms2'[w]) = CycleCount(ms1')
        ELSE ms1' = ms1 /\ ms2' = ms2]_vars

(***************************************************************************)
(* C10 amended: when some window is exactly one cycle short of MS1, the    *)
(* trim pass removes the last entry of MS1 and of every window that has at *)
(* least as many cycles as MS1, leaves every other window unchanged, and   *)
(* MS1 and every window that had MS1's count or one fewer then have the    *)
(* same cycle count; otherwise nothing is trimmed.                         *)
(***************************************************************************)
C10_TrimPass ==
    [][pc = "trailing" =>
        IF \E w \in Windows : CycleCount(ms1) - CycleCount(ms2[w]) = 1
        THEN /\ ms1' = Popped(ms1)
             /\ \A w \in Windows :
                    ms2'[w] = IF CycleCount(ms2[w]) >= CycleCount(ms1)
                              THEN Popped(ms2[w]) ELSE ms2[w]
             /\ \A w \in Windows :
                    CycleCount(ms1) - CycleCount(ms2[w]) \in {0, 1}
                    => CycleCount(ms2'[w]) = CycleCount(ms1')
        ELSE ms1' = ms1 /\ ms2' = ms2]_vars

\* the trim pass has run: MS1 lost its last entry, one window lost its last entry
\* and another window, already one short, was left as it was
C10_Witness ==
    /\ pc = "done"
    /\ CycleCount(ms1) = NumMS1 - 1
    /\ \E w \in Windows : CycleCount(ms2[w]) = NumInWindow(w) - 1
    /\ \E w \in Windows : CycleCount(ms2[w]) = NumInWindow(w) /\ NumInWindow(w) = NumMS1 - 1

(***************************************************************************)
(* The helper functions are applied to arguments drawn by the initial      *)
(* state; load_rawdata's variables stay idle meanwhile.                    *)
(***************************************************************************)
LoadIdle ==
    /\ pc = "idle"
    /\ stream = <<>>
    /\ RT = <<>>
    /\ ms1 = MS1_Chrom
    /\ ms2 = <<>>

Returned == ret # <<>>

Abs(x) == IF x < 0 THEN 0 - x ELSE x

(***************************************************************************)
(* get_peak_indice                                                         *)
(***************************************************************************)
RECURSIVE PeakLoop_off(_, _, _, _)
PeakLoop_off(n_cycles, peak_index_range, i, peak_indice) ==
    IF i >= peak_index_range - 1 THEN peak_indice
    ELSE IF n_cycles % 2 # 0
         THEN PeakLoop_off(n_cycles, peak_index_range, i + 1,
                       peak_indice \o <<n_cycles \div 2 - (i + 1), n_cycles \div 2 + (i + 1)>>)
         ELSE PeakLoop_off(n_cycles, peak_index_range, i + 1,
                       peak_indice \o <<n_cycles \div 2 - (i + 1), n_cycles \div 2 + i>>)

\* lines 258-265: iteration i of the loop and those after it
RECURSIVE PeakLoop(_, _, _, _)
PeakLoop(n_cycles, peak_index_range, i, peak_indice) ==
    IF i >= peak_index_range - 1 THEN peak_indice
    ELSE IF n_cycles % 2 # 0
         THEN PeakLoop(n_cycles, peak_index_range, i + 1,
                       peak_indice \o <<n_cycles \div 2 - (i + 1), n_cycles \div 2 + (i + 1)>>)
         ELSE PeakLoop(n_cycles, peak_index_range, i + 1,
                       IF i # 0
                       THEN peak_indice \o <<n_cycles \div 2 - (i + 1), n_cycles \div 2 + i>>
                       ELSE peak_indice \o <<n_cycles \div 2 - (i + 1)>>)

get_peak_indice(n_cycles, peak_index_range) ==
    PeakLoop(n_cycles, peak_index_range, 0, <<n_cycles \div 2>>)

InitPeak ==
    /\ LoadIdle
    /\ args \in [n_cycles : 1..MaxPeakCycles, peak_index_range : 1..MaxPeakIndexRange]
    /\ ret = <<>>

Call_get_peak_indice ==
    /\ ret = <<>>
    /\ ret' = <<get_peak_indice(args.n_cycles, args.peak_index_range)>>
    /\ UNCHANGED <<pc, stream, RT, ms1, ms2, args>>

SpecPeak == InitPeak /\ [][Call_get_peak_indice]_vars

(***************************************************************************)
(* C4 as stated: the first element returned by get_peak_indice is the      *)
(* centre cycle n_cycles // 2 and the list is no longer than               *)
(* peak_index_range.                                                       *)
(***************************************************************************)
C4_AtMostRequested ==
    Returned =>
        /\ ret[1][1] = args.n_cycles \div 2
        /\ Len(ret[1]) <= args.peak_index_range

(***************************************************************************)
(* C4 amended: the first element returned by get_peak_indice is the centre *)
(* cycle n_cycles // 2 and the list is no longer than                      *)
(* 2 * peak_index_range - 1: it has 2 * peak_index_range - 1 elements for  *)
(* odd n_cycles, and for even n_cycles 2 * peak_index_range - 2 elements   *)
(* (1 when peak_index_range is 1).                                         *)
(***************************************************************************)
C4_CentreFirstLength ==
    Returned =>
        /\ ret[1][1] = args.n_cycles \div 2
        /\ Len(ret[1]) <= 2 * args.peak_index_range - 1
        /\ Len(ret[1]) = IF args.n_cycles % 2 # 0 \/ args.peak_index_range = 1
                         THEN 2 * args.peak_index_range - 1
                         ELSE 2 * args.peak_index_range - 2

\* a call has returned more candidates than peak_index_range, for an even n_cycles
C4_Witness ==
    /\ Returned
    /\ args.n_cycles % 2 = 0
    /\ Len(ret[1]) > args.peak_index_range
    /\ ret[1][1] = args.n_cycles \div 2

(***************************************************************************)
(* find_rt_pos                                                             *)
(***************************************************************************)
\* np.argmin: the (Python) index of the first smallest entry
argmin(a) ==
    (CHOOSE i \in 1..Len(a) :
        /\ \A j \in 1..Len(a) : a[i] <= a[j]
        /\ \A j \in 1..(i - 1) : a[j] > a[i]) - 1

\* [i for i in range(lo, hi)]
RangeList(lo, hi) == [k \in 1..(IF hi > lo THEN hi - lo ELSE 0) |-> lo + k - 1]

find_rt_pos_off(target, rt_list, n_cycles) ==
    LET middle_pos   == argmin([k \in 1..Len(rt_list) |-> Abs(rt_list[k] - target)])
        expand_range == n_cycles \div 2
        start_pos    == middle_pos - expand_range
        end_pos      == IF n_cycles % 2 = 0
                        THEN middle_pos + expand_range
                        ELSE middle_pos + expand_range + 1
    IN  IF start_pos < 0 THEN RangeList(0, n_cycles)
        ELSE RangeList(start_pos, end_pos)

find_rt_pos(target, rt_list, n_cycles) ==
    LET middle_pos   == argmin([k \in 1..Len(rt_list) |-> Abs(rt_list[k] - target)])
        expand_range == n_cycles \div 2
        start_pos    == middle_pos - expand_range
        end_pos      == IF n_cycles % 2 = 0
                        THEN middle_pos + expand_range
                        ELSE middle_pos + expand_range + 1
    IN  IF start_pos < 0 THEN RangeList(0, n_cycles)
        ELSE IF end_pos > Len(rt_list)
             THEN RangeList(Len(rt_list) - n_cycles, Len(rt_list))
             ELSE RangeList(start_pos, end_pos)

\* retention times of the cycles and of the target
RtValues == 0..3

RtLists == UNION {[1..n -> RtValues] : n \in 1..MaxRtListLen}

InitRtPos ==
    /\ LoadIdle
    /\ args \in [RT : RtValues, rt_list : RtLists, n_cycles : 1..MaxRtListLen]
    /\ ret = <<>>

Call_find_rt_pos ==
    /\ ret = <<>>
    /\ ret' = <<find_rt_pos(args.RT, args.rt_list, args.n_cycles)>>
    /\ UNCHANGED <<pc, stream, RT, ms1, ms2, args>>

SpecRtPos == InitRtPos /\ [][Call_find_rt_pos]_vars

\* the cycle nearest the target: the first one at the least distance
NearestCycle ==
    CHOOSE m \in 0..(Len(args.rt_list) - 1) :
        /\ \A j \in 0..(Len(args.rt_list) - 1) :
              Abs(args.rt_list[m + 1] - args.RT) <= Abs(args.rt_list[j + 1] - args.RT)
        /\ \A j \in 0..(m - 1) :
              Abs(args.rt_list[j + 1] - args.RT) > Abs(args.rt_list[m + 1] - args.RT)

(***************************************************************************)
(* C5: for 1 <= n_cycles <= len(rt_list), find_rt_pos returns the          *)
(* contiguous index range [start, end) with 0 <= start <= end <= len and   *)
(* end - start = n_cycles; it is [0, n_cycles) when the window centred on  *)
(* the nearest cycle would start before 0, and [len - n_cycles, len) when  *)
(* it would end past len.                                                  *)
(***************************************************************************)
C5_WindowInRange ==
    (Returned /\ args.n_cycles <= Len(args.rt_list)) =>
        LET rt_pos == ret[1]
            n      == args.n_cycles
            len    == Len(args.rt_list)
            start  == rt_pos[1]
            end    == rt_pos[n] + 1
            left   == NearestCycle - n \div 2
            right  == NearestCycle + n - n \div 2
        IN  /\ Len(rt_pos) = n
            /\ \A k \in 1..n : rt_pos[k] = start + k - 1
            /\ 0 <= start /\ start <= end /\ end <= len
            /\ end - start = n
            /\ left < 0 => start = 0
            /\ right > len => start = len - n
            /\ (left >= 0 /\ right <= len) => start = left

\* calls have returned a window clamped at the end of the chromatogram
C5_Witness ==
    /\ Returned
    /\ args.n_cycles <= Len(args.rt_list)
    /\ args.n_cycles > 1
    /\ NearestCycle + args.n_cycles - args.n_cycles \div 2 > Len(args.rt_list)
    /\ ret[1][1] = Len(args.rt_list) - args.n_cycles

(***************************************************************************)
(* calc_XIC                                                                *)
(***************************************************************************)
\* sum(list)
RECURSIVE SumList(_)
SumList(list) == IF list = <<>> THEN 0 ELSE list[1] + SumList(Tail(list))

\* list[lo:hi] for 0 <= lo, hi <= len(list)
Slice(list, lo, hi) == IF lo < hi THEN SubSeq(list, lo + 1, hi) ELSE <<>>

\* m/z values are whole; a bound target -/+ tol/2 is held doubled, and for ppm
\* (tol_da = target * tol / 10^6) doubled and multiplied by 10^6
MzScale(mz_unit) == IF mz_unit = "Da" THEN 2 ELSE 2000000

\* lines 204-208: extract_width, in units of 1 / MzScale(mz_unit)
extract_width(mz_to_extract, mz_unit, mz_tol) ==
    IF mz_unit = "Da"
    THEN <<2 * mz_to_extract - mz_tol, 2 * mz_to_extract + mz_tol>>
    ELSE <<2000000 * mz_to_extract - mz_to_extract * mz_tol,
           2000000 * mz_to_extract + mz_to_extract * mz_tol>>

Scaled(mz_array, mz_unit) == [k \in 1..Len(mz_array) |-> MzScale(mz_unit) * mz_array[k]]

calc_XIC_off(spectra, mz_to_extract, mz_unit, mz_tol) ==
    IF mz_unit \notin {"Da", "ppm"} THEN "UnboundLocalError"
    ELSE LET width == extract_width(mz_to_extract, mz_unit, mz_tol)
         IN  [c \in 1..Len(spectra) |->
                 SumList(Slice(spectra[c][2],
                               bisect_left(Scaled(spectra[c][1], mz_unit), width[1]),
                               bisect_left(Scaled(spectra[c][1], mz_unit), width[2])))]

\* a unit other than "Da" and "ppm" leaves extract_width unassigned
calc_XIC(spectra, mz_to_extract, mz_unit, mz_tol) ==
    IF mz_unit \notin {"Da", "ppm"} THEN "UnboundLocalError"
    ELSE LET width == extract_width(mz_to_extract, mz_unit, mz_tol)
         IN  [c \in 1..Len(spectra) |->
                 SumList(Slice(spectra[c][2],
                               bisect_left(Scaled(spectra[c][1], mz_unit), width[1]),
                               bisect_right(Scaled(spectra[c][1], mz_unit), width[2])))]

\* m/z values of spectrum entries and of the target
XicMzValues == 1..3

IsAscending(a) == \A k \in 1..(Len(a) - 1) : a[k] <= a[k + 1]

\* a cycle's spectrum: an ascending m/z array and its intensity array; entry k has
\* intensity 2^(k-1), so that a sum tells which entries were added
XicSpectra ==
    {<<mz_array, [k \in 1..Len(mz_array) |-> 2 ^ (k - 1)]>> :
        mz_array \in {a \in UNION {[1..n -> XicMzValues] : n \in 0..MaxXicPeaks} : IsAscending(a)}}

\* tolerances: absolute ones (also a negative one), relative ones in ppm
XicTolerances(mz_unit) ==
    IF mz_unit = "ppm" THEN {0, 250000, 500000, 1000000} ELSE {-2, 0, 1, 2, 3}

\* the calls made: every unit with its tolerances, and one call with an unknown unit
InitXIC ==
    /\ LoadIdle
    /\ \/ \E sp \in UNION {[1..n -> XicSpectra] : n \in 0..MaxXicCycles} :
          \E mz \in XicMzValues, u \in {"Da", "ppm"} :
          \E t \in XicTolerances(u) :
              args = [spectra |-> sp, mz_to_extract |-> mz, mz_unit |-> u, mz_tol |-> t]
       \/ args = [spectra |-> <<>>, mz_to_extract |-> 1, mz_unit |-> "Th", mz_tol |-> 1]
    /\ ret = <<>>

Call_calc_XIC ==
    /\ ret = <<>>
    /\ ret' = <<calc_XIC(args.spectra, args.mz_to_extract, args.mz_unit, args.mz_tol)>>
    /\ UNCHANGED <<pc, stream, RT, ms1, ms2, args>>

SpecXIC == InitXIC /\ [][Call_calc_XIC]_vars

\* the tolerance in Daltons, times MzScale(mz_unit) / 2
TolInDaltons == IF args.mz_unit = "Da" THEN args.mz_tol ELSE args.mz_to_extract * args.mz_tol

\* entry k of cycle c lies in [target - tol/2, target + tol/2], both ends included
InExtractionRange(c, k) ==
    LET mz == MzScale(args.mz_unit) * args.spectra[c][1][k]
        t  == MzScale(args.mz_unit) * args.mz_to_extract
    IN  t - TolInDaltons <= mz /\ mz <= t + TolInDaltons

RECURSIVE SumInRange(_, _)
SumInRange(c, k) ==
    IF k = 0 THEN 0
    ELSE (IF InExtractionRange(c, k) THEN args.spectra[c][2][k] ELSE 0) + SumInRange(c, k - 1)

(***************************************************************************)
(* C6: calc_XIC returns one value per cycle, and the value of cycle c is   *)
(* the sum of the intensities of exactly the entries of cycle c whose m/z  *)
(* lies in [target - tol/2, target + tol/2] (tol in Daltons), 0 when none  *)
(* does.                                                                   *)
(***************************************************************************)
C6_SumOverInclusiveRange ==
    (Returned /\ args.mz_unit \in {"Da", "ppm"}) =>
        /\ Len(ret[1]) = Len(args.spectra)
        /\ \A c \in 1..Len(args.spectra) :
               /\ ret[1][c] = SumInRange(c, Len(args.spectra[c][1]))
               /\ (\A k \in 1..Len(args.spectra[c][1]) : ~InExtractionRange(c, k)) => ret[1][c] = 0

\* a call has returned a trace with a cycle in which an entry on the upper bound was
\* added and an entry above the bound was not, and with a cycle where nothing was in range
C6_Witness ==
    /\ Returned
    /\ args.mz_unit \in {"Da", "ppm"}
    /\ \E c \in 1..Len(args.spectra) :
           /\ \E k \in 1..Len(args.spectra[c][1]) :
                  MzScale(args.mz_unit) * (args.spectra[c][1][k] - args.mz_to_extract) = TolInDaltons
           /\ \E k \in 1..Len(args.spectra[c][1]) : ~InExtractionRange(c, k)
           /\ ret[1][c] > 0
    /\ \E c \in 1..Len(args.spectra) : args.spectra[c][1] # <<>> /\ ret[1][c] = 0

(***************************************************************************)
(* adjust_size                                                             *)
(***************************************************************************)
\* frag_matrix.sum(axis = 1)
RowSums(frag_matrix) == [r \in 1..Len(frag_matrix) |-> SumList(frag_matrix[r])]

IndexOrders(n) == {p \in [1..n -> 1..n] : \A i, j \in 1..n : p[i] = p[j] => i = j}

\* ndarray.argsort() with the default kind, which is not stable: any order of the
\* (1-based) indices that puts the values in ascending order
argsort(values) ==
    {p \in IndexOrders(Len(values)) :
        \A i \in 1..(Len(values) - 1) : values[p[i]] <= values[p[i + 1]]}

\* list[::-1]
Reversed(list) == [k \in 1..Len(list) |-> list[Len(list) + 1 - k]]

adjust_size_off(frag_matrix, n_frags) ==
    IF Len(frag_matrix) > n_frags
    THEN {[k \in 1..n_frags |-> frag_matrix[order[k]]] : order \in argsort(RowSums(frag_matrix))}
    ELSE {frag_matrix}

\* the values adjust_size may return, one per order argsort may produce
adjust_size(frag_matrix, n_frags) ==
    IF Len(frag_matrix) > n_frags
    THEN {[k \in 1..n_frags |-> frag_matrix[Reversed(order)[k]]] :
              order \in argsort(RowSums(frag_matrix))}
    ELSE {frag_matrix}

\* intensities of a fragment trace; a row holds two cycles
FragIntensities == 0..2

FragRows == [1..2 -> FragIntensities]

InitAdjust ==
    /\ LoadIdle
    /\ args \in [frag_matrix : UNION {[1..n -> FragRows] : n \in 0..MaxFragRows},
                 n_frags : 1..MaxFragRows]
    /\ ret = <<>>

Call_adjust_size ==
    /\ ret = <<>>
    /\ \E result \in adjust_size(args.frag_matrix, args.n_frags) : ret' = <<result>>
    /\ UNCHANGED <<pc, stream, RT, ms1, ms2, args>>

SpecAdjust == InitAdjust /\ [][Call_adjust_size]_vars

\* the ways to pick n distinct rows of the matrix, in some order
Selections(n) ==
    {sel \in [1..n -> 1..Len(args.frag_matrix)] : \A i, j \in 1..n : sel[i] = sel[j] => i = j}

\* sel picks rows whose sums are the greatest of the matrix, in descending order of sum
IsTopSelection(sel) ==
    LET sums == RowSums(args.frag_matrix)
        picked == {sel[k] : k \in 1..Len(sel)}
    IN  /\ \A k \in 1..(Len(sel) - 1) : sums[sel[k]] >= sums[sel[k + 1]]
        /\ \A r \in (1..Len(args.frag_matrix)) \ picked : \A k \in 1..Len(sel) : sums[r] <= sums[sel[k]]

\* as IsTopSelection, and among equal sums the earlier row is taken and put first
IsStableTopSelection(sel) ==
    LET sums == RowSums(args.frag_matrix)
        picked == {sel[k] : k \in 1..Len(sel)}
    IN  /\ IsTopSelection(sel)
        /\ \A k \in 1..(Len(sel) - 1) : sums[sel[k]] = sums[sel[k + 1]] => sel[k] < sel[k + 1]
        /\ \A r \in (1..Len(args.frag_matrix)) \ picked :
               \A k \in 1..Len(sel) : sums[r] = sums[sel[k]] => sel[k] < r

RowsOf(sel) == [k \in 1..Len(sel) |-> args.frag_matrix[sel[k]]]

(***************************************************************************)
(* C7 as stated: with more than n_frags rows, adjust_size returns the      *)
(* n_frags rows of greatest row sum in descending order of row sum, equal  *)
(* sums selected and ordered by original row order (the earlier row wins); *)
(* with at most n_frags rows the matrix is returned unchanged.             *)
(***************************************************************************)
C7_TiesByOriginalOrder ==
    Returned =>
        IF Len(args.frag_matrix) > args.n_frags
        THEN \E sel \in Selections(args.n_frags) :
                 IsStableTopSelection(sel) /\ ret[1] = RowsOf(sel)
        ELSE ret[1] = args.frag_matrix

(***************************************************************************)
(* C7 amended: with more than n_frags rows, adjust_size returns exactly    *)
(* n_frags distinct rows, in descending order of row sum, none of them     *)
(* with a smaller sum than a row left out; which of several rows of equal  *)
(* sum is taken, and their order, need not follow the original row order.  *)
(* With at most n_frags rows the matrix is returned unchanged.             *)
(***************************************************************************)
C7_TopRowsDescending ==
    Returned =>
        IF Len(args.frag_matrix) > args.n_frags
        THEN /\ Len(ret[1]) = args.n_frags
             /\ \E sel \in Selections(args.n_frags) :
                    IsTopSelection(sel) /\ ret[1] = RowsOf(sel)
        ELSE ret[1] = args.frag_matrix

\* a call has cut a matrix with two different rows of equal sum down to one of them,
\* and it is the later row that was kept
C7_Witness ==
    /\ Returned
    /\ Len(args.frag_matrix) > args.n_frags
    /\ \E r1, r2 \in 1..Len(args.frag_matrix) :
           /\ r1 < r2
           /\ args.frag_matrix[r1] # args.frag_matrix[r2]
           /\ RowSums(args.frag_matrix)[r1] = RowSums(args.frag_matrix)[r2]
           /\ \A k \in 1..Len(ret[1]) : ret[1][k] # args.frag_matrix[r1]
           /\ \E k \in 1..Len(ret[1]) : ret[1][k] = args.frag_matrix[r2]

(***************************************************************************)
(* get_precursor_indice and tear_library                                   *)
(***************************************************************************)
\* lines 73-80: the loop from row i (Python index) on
RECURSIVE PrecursorLoop(_, _, _, _, _)
PrecursorLoop(precursor_ids, i, last_record, prec_index, precursor_indice) ==
    IF i >= Len(precursor_ids) THEN Append(precursor_indice, prec_index)
    ELSE LET prec == precursor_ids[i + 1]
         IN  IF last_record # prec
             THEN IF i # 0
                  THEN PrecursorLoop(precursor_ids, i + 1, prec, <<i>>,
                                     Append(precursor_indice, prec_index))
                  ELSE PrecursorLoop(precursor_ids, i + 1, prec, prec_index, precursor_indice)
             ELSE PrecursorLoop(precursor_ids, i + 1, prec, Append(prec_index, i),
                                precursor_indice)

get_precursor_indice(precursor_ids) == PrecursorLoop(precursor_ids, 0, "", <<0>>, <<>>)

\* the value tear_library returns, or the exception it raises
tear_library(precursor_ids, n_threads) ==
    LET precursor_indice == get_precursor_indice(precursor_ids)
        n_precursors == Len(precursor_indice)
        n_each_chunk == n_precursors \div n_threads
        chunk_indice == [i \in 1..n_threads |->
                            [k \in 1..n_each_chunk |-> (k - 1) + (i - 1) * n_each_chunk]]
    IN  IF chunk_indice[n_threads] = <<>>
        THEN [raised |-> "IndexError", precursor_indice |-> <<>>, chunk_indice |-> <<>>]
        ELSE LET first == chunk_indice[n_threads][n_each_chunk] + 1
                 extra == RangeList(first, n_precursors)
             IN  [raised |-> "",
                  precursor_indice |-> precursor_indice,
                  chunk_indice |-> [i \in 1..n_threads |->
                                       IF i <= Len(extra)
                                       THEN Append(chunk_indice[i], extra[i])
                                       ELSE chunk_indice[i]]]

\* precursor ids of the library rows
PrecursorIds == {"A", "B"}

InitTear ==
    /\ LoadIdle
    /\ args \in [precursor_ids : UNION {[1..n -> PrecursorIds] : n \in 1..MaxLibraryRows},
                 n_threads : 1..MaxThreads]
    /\ ret = <<>>

Call_tear_library ==
    /\ ret = <<>>
    /\ ret' = <<tear_library(args.precursor_ids, args.n_threads)>>
    /\ UNCHANGED <<pc, stream, RT, ms1, ms2, args>>

SpecTear == InitTear /\ [][Call_tear_library]_vars

IsContiguous(chunk) == \A k \in 1..(Len(chunk) - 1) : chunk[k + 1] = chunk[k] + 1

(***************************************************************************)
(* C8: for n >= 1 precursor groups and n_threads >= 1, tear_library        *)
(* returns n_threads chunks of group indices; each chunk is a contiguous   *)
(* run, the chunks are pairwise disjoint and together hold every index     *)
(* 0..n-1 exactly once, and the first n mod n_threads chunks hold one      *)
(* index more than the others.                                             *)
(***************************************************************************)
C8_ContiguousPartition ==
    Returned =>
        LET chunks == ret[1].chunk_indice
            n      == Len(get_precursor_indice(args.precursor_ids))
            t      == args.n_threads
        IN  /\ ret[1].raised = ""
            /\ Len(chunks) = t
            /\ \A i \in 1..t : IsContiguous(chunks[i])
            /\ \A i \in 1..t : \A k, m \in 1..Len(chunks[i]) : chunks[i][k] = chunks[i][m] => k = m
            /\ \A i, j \in 1..t : i # j =>
                   \A k \in 1..Len(chunks[i]) : \A m \in 1..Len(chunks[j]) : chunks[i][k] # chunks[j][m]
            /\ \A g \in 0..(n - 1) : \E i \in 1..t : \E k \in 1..Len(chunks[i]) : chunks[i][k] = g
            /\ \A i \in 1..t : \A k \in 1..Len(chunks[i]) : chunks[i][k] \in 0..(n - 1)
            /\ \A i \in 1..t : Len(chunks[i]) = n \div t + (IF i <= n % t THEN 1 ELSE 0)

====
